---------------------------- MODULE Spec2Model ----------------------------
(***************************************************************************)
(* A model of src/app.py, the Streamlit flight analytics dashboard.        *)
(*                                                                         *)
(* The script is re-run from its first line on every user interaction.     *)
(* One script run is modelled statement group by statement group (pc);    *)
(* the state that outlives a run is the st.cache_data store of load_data   *)
(* and the values of the two sidebar widgets.                              *)
(*                                                                         *)
(* A CSV file is encoded by its row count and the rule that generates its  *)
(* cells (Cell), so that files of more than a thousand rows fit a state.   *)
(* Categorical values (airline, airport codes) are encoded as integers     *)
(* whose order stands for the order of the strings.                        *)
(***************************************************************************)
EXTENDS Integers, Sequences, FiniteSets

VARIABLES
    csv,              \* FF_flights_data.csv as it is on storage
    cache,            \* the st.cache_data store of load_data
    reads,            \* how many times pd.read_csv has read the file
    radio_state,      \* session value of the "Navigation" radio
    slider_state,     \* session value of the "Sample size" slider
    pc,               \* position of the current script run
    flight,           \* the script's variable flight
    page,             \* the script's variable page
    max_sample_size,
    min_sample_size,
    default_size,
    sample_size,
    sidebar,          \* which sample-size element the run put in the sidebar
    sampled_data,     \* the script's variable sampled_data
    view,             \* what the page branch of the run produced
    alerts,           \* the st.error messages the run displayed
    drawn             \* every (requested size, sample) pair drawn so far in the process

vars == <<csv, cache, reads, radio_state, slider_state, pc, flight, page,
          max_sample_size, min_sample_size, default_size, sample_size, sidebar,
          sampled_data, view, alerts, drawn>>

(***************************************************************************)
(* Bounds of the model.                                                    *)
(***************************************************************************)
MaxRows == 12
MaxLen == 1002

(***************************************************************************)
(* The data: columns, files and cells.                                     *)
(***************************************************************************)
Columns == {"AIRLINE", "DEPARTURE_DELAY", "ARRIVAL_DELAY", "DISTANCE",
            "SCHEDULED_DEPARTURE", "DAY_OF_WEEK", "MONTH", "ORIGIN_AIRPORT",
            "DESTINATION_AIRPORT", "FLIGHT_NUMBER"}

\* Columns a generated file may lack or hold nulls in.
DefectColumns == {"AIRLINE", "DEPARTURE_DELAY", "ARRIVAL_DELAY", "ORIGIN_AIRPORT"}

Shapes == 1..4

None == [kind |-> "None", n |-> 0, shape |-> 0, absent |-> "", nullcol |-> "",
         nullmode |-> ""]

Unset == [kind |-> "unset", n |-> 0, shape |-> 0, absent |-> "", nullcol |-> "",
          nullmode |-> ""]

Broken(k) == [kind |-> k, n |-> 0, shape |-> 0, absent |-> "", nullcol |-> "",
              nullmode |-> ""]

Table(n, s, a, c, m) == [kind |-> "DataFrame", n |-> n, shape |-> s, absent |-> a,
                         nullcol |-> c, nullmode |-> m]

\* The files the model is checked on: a missing file, an unparseable one, and
\* tables of 0..MaxRows rows of every shape, intact, lacking one column, or
\* with one column null in every row or in some.
Files ==
    {Broken("missing"), Broken("unparseable")}
    \cup {Table(n, s, "", "", "") : n \in 0..MaxRows, s \in Shapes}
    \cup {Table(n, s, a, "", "") : n \in 0..MaxRows, s \in Shapes, a \in DefectColumns}
    \cup {Table(n, s, "", c, m) : n \in 0..MaxRows, s \in Shapes, c \in DefectColumns,
                                  m \in {"all", "some"}}

NA == [isna |-> TRUE, v |-> 0]
Val(x) == [isna |-> FALSE, v |-> x]

\* The route (origin, destination) of row i, as an index.
RouteOf(s, i) ==
    CASE s = 1 -> i
      [] s = 2 -> i % 12
      [] s = 3 -> i \div 2
      [] OTHER -> i % 3

\* The value the file's generating rule gives column col in row i (i from 0).
RawCell(s, i, col) ==
    CASE col = "AIRLINE" ->
            (CASE s = 1 -> 1 + (i % 3) [] s = 2 -> 1 [] s = 3 -> 1 + (i % 2)
               [] OTHER -> 1 + (i % 4))
      [] col = "ARRIVAL_DELAY" ->
            (CASE s = 1 -> ((i * 5) % 7) - 3 [] s = 2 -> i % 2 [] s = 3 -> 0 - i
               [] OTHER -> ((i * i) % 5) - 1)
      [] col = "DEPARTURE_DELAY" ->
            (CASE s = 1 -> ((i * 3) % 11) - 4 [] s = 2 -> 5 [] s = 3 -> 10 - ((7 * i) % 25)
               [] OTHER -> ((i % 3) * 10) - 5)
      [] col = "ORIGIN_AIRPORT" -> 1 + (RouteOf(s, i) % 4)
      [] col = "DESTINATION_AIRPORT" -> 5 + (RouteOf(s, i) \div 4)
      [] col = "DISTANCE" -> 100 + 10 * RouteOf(s, i) + (IF s = 4 THEN i ELSE 0)
      [] col = "MONTH" -> 1 + (i % 12)
      [] col = "DAY_OF_WEEK" -> 1 + (i % 7)
      [] col = "SCHEDULED_DEPARTURE" -> ((i % 4) * 600) + 5
      [] OTHER -> 100 + i

\* What pd.read_csv gives for column col of row i of table f: NaN for an
\* empty cell.
Cell(f, i, col) ==
    IF f.nullcol = col /\ (f.nullmode = "all" \/ (f.nullmode = "some" /\ i % 3 = 1))
    THEN NA
    ELSE Val(RawCell(f.shape, i, col))

HasColumn(f, col) == f.absent # col

len(f) == f.n

(***************************************************************************)
(* DataFrame.sample(n, random_state): a fresh generator seeded with         *)
(* random_state permutes the row positions (a Fisher-Yates shuffle, as      *)
(* numpy's permutation) and the first n are taken. The generator is a       *)
(* 16-bit linear congruential one standing for numpy's: what the model      *)
(* keeps is that the draw is a function of the seed and the frame's length. *)
(***************************************************************************)
\* random_state omitted: the draw uses the process-wide generator, whose state
\* moves on with every draw made.
random_state_omitted == 42 + Cardinality(drawn)

\* random_state=42
random_state == 42

rk_random(s) == (25173 * s + 13849) % 65536

\* A number in 0..i from generator state s.
rk_interval(i, s) == (s \div 256) % (i + 1)

swap(x, a, b) == [x EXCEPT ![a] = x[b], ![b] = x[a]]

\* numpy shuffle: for i = n-1 down to 1, swap x[i] with x[j], j drawn in 0..i.
\* x is 1-based here, so position i of numpy is x[i + 1].
RECURSIVE shuffle(_, _, _)
shuffle(x, i, s) ==
    IF i < 1 THEN x
    ELSE LET s2 == rk_random(s)
             j == rk_interval(i, s2)
         IN shuffle(swap(x, i + 1, j + 1), i - 1, s2)

permutation(seed, n) == shuffle([k \in 1..n |-> k - 1], n - 1, rk_random(seed))

\* The outcome of frame.sample(n=n, random_state=seed): the row positions
\* taken, in order, or the ValueError pandas raises for a negative n or an n
\* larger than the frame.
sample(f, n, seed) ==
    IF n < 0 \/ n > len(f)
    THEN [ok |-> FALSE, idx |-> <<>>]
    ELSE [ok |-> TRUE, idx |-> SubSeq(permutation(seed, len(f)), 1, n)]

NoSample == [ok |-> FALSE, idx |-> <<>>]

\* All row positions of a frame, in file order.
all_rows(f) == [k \in 1..len(f) |-> k - 1]

(***************************************************************************)
(* Aggregation primitives of pandas, over the rows (positions) of a frame.  *)
(* A mean is kept as the exact fraction sum/cnt; cnt = 0 is NaN.            *)
(***************************************************************************)
NaN == [sum |-> 0, cnt |-> 0]

isnan(m) == m.cnt = 0

RECURSIVE sum_valid(_, _, _)
sum_valid(f, rows, col) ==
    IF rows = <<>> THEN [sum |-> 0, cnt |-> 0, sq |-> 0]
    ELSE LET c == Cell(f, Head(rows), col)
             r == sum_valid(f, Tail(rows), col)
         IN IF c.isna THEN r
            ELSE [sum |-> r.sum + c.v, cnt |-> r.cnt + 1, sq |-> r.sq + c.v * c.v]

\* Series.mean(): nulls are skipped; NaN when nothing is left.
mean(f, rows, col) ==
    LET r == sum_valid(f, rows, col) IN [sum |-> r.sum, cnt |-> r.cnt]

\* Series.std() (ddof = 1), kept as its square num/den; NaN below two values.
std(f, rows, col) ==
    LET r == sum_valid(f, rows, col)
    IN [defined |-> r.cnt >= 2,
        num |-> r.cnt * r.sq - r.sum * r.sum,
        den |-> r.cnt * (r.cnt - 1)]

\* GroupBy.first(): the first non-null value of the column in the group.
RECURSIVE first(_, _, _)
first(f, rows, col) ==
    IF rows = <<>> THEN NA
    ELSE IF Cell(f, Head(rows), col).isna THEN first(f, Tail(rows), col)
    ELSE Cell(f, Head(rows), col)

\* Series.count(): the non-null values.
count(f, rows, col) == sum_valid(f, rows, col).cnt

\* a < b for two means that are both numbers.
mean_lt(a, b) == a.sum * b.cnt < b.sum * a.cnt

\* The key of row i under the key columns, and whether a key column is null.
key_of(f, i, cols) == [k \in 1..Len(cols) |-> Cell(f, i, cols[k]).v]
key_isna(f, i, cols) == \E k \in 1..Len(cols) : Cell(f, i, cols[k]).isna

\* Lexicographic order of keys.
key_lt(a, b) ==
    \E k \in 1..Len(a) : a[k] < b[k] /\ \A j \in 1..(k - 1) : a[j] = b[j]

RECURSIVE sorted_keys(_)
sorted_keys(S) ==
    IF S = {} THEN <<>>
    ELSE LET m == CHOOSE a \in S : \A b \in S : ~key_lt(b, a)
         IN <<m>> \o sorted_keys(S \ {m})

\* The group keys of frame.groupby(cols): dropna=True drops the rows with a
\* null key, sort=True orders the groups by key.
groupby_keep_na(f, rows, cols) ==
    sorted_keys({key_of(f, rows[k], cols) : k \in 1..Len(rows)})

groupby(f, rows, cols) ==
    sorted_keys({key_of(f, rows[k], cols) :
                    k \in {j \in 1..Len(rows) : ~key_isna(f, rows[j], cols)}})

\* The rows of one group, in frame order.
group_rows(f, rows, cols, key) ==
    SelectSeq(rows, LAMBDA i : ~key_isna(f, i, cols) /\ key_of(f, i, cols) = key)

\* A whole number as a table cell.
num(k) == [sum |-> k, cnt |-> 1]

\* sort_values sorts with kind='quicksort', which does not fix the order of
\* rows with equal values: they may come out in the order they had or not.
\* The model takes the two extreme outcomes.
TieOrders == {"kept", "reversed"}

\* Whether row e stays ahead of row r when r is put into a frame sorted by
\* col descending: NaN goes last (na_position='last').
stays_ahead_ascending(e, r, col, ties) ==
    IF isnan(r[col]) THEN TRUE
    ELSE IF isnan(e[col]) THEN FALSE
    ELSE IF ties = "kept" THEN ~mean_lt(r[col], e[col]) ELSE mean_lt(e[col], r[col])

stays_ahead(e, r, col, ties) ==
    IF isnan(r[col]) THEN TRUE
    ELSE IF isnan(e[col]) THEN FALSE
    ELSE IF ties = "kept" THEN ~mean_lt(e[col], r[col]) ELSE mean_lt(r[col], e[col])

RECURSIVE insert_sorted(_, _, _, _)
insert_sorted(sorted, r, col, ties) ==
    IF sorted = <<>> THEN <<r>>
    ELSE IF stays_ahead(Head(sorted), r, col, ties)
         THEN <<Head(sorted)>> \o insert_sorted(Tail(sorted), r, col, ties)
         ELSE <<r>> \o sorted

\* frame.sort_values(col, ascending=False)
RECURSIVE sort_values(_, _, _)
sort_values(frame, col, ties) ==
    IF frame = <<>> THEN <<>>
    ELSE insert_sorted(sort_values(SubSeq(frame, 1, Len(frame) - 1), col, ties),
                       frame[Len(frame)], col, ties)

\* frame.head(k)
head(frame, k) == SubSeq(frame, 1, IF Len(frame) < k THEN Len(frame) ELSE k)

\* Series.value_counts().reset_index(): one row per non-null value, most
\* frequent first.
value_counts(f, rows, col, ties) ==
    LET keys == groupby(f, rows, <<col>>)
    IN sort_values([k \in 1..Len(keys) |->
                      [AIRLINE |-> keys[k][1],
                       COUNT |-> num(Len(group_rows(f, rows, <<col>>, keys[k])))]],
                   "COUNT", ties)

(***************************************************************************)
(* The six pages.                                                           *)
(***************************************************************************)
Pages == {"Dashboard Overview", "Performance Analytics", "Time Analysis",
          "Delay Patterns", "Route Analysis", "Statistical Insights"}

NumericColumns == <<"DEPARTURE_DELAY", "ARRIVAL_DELAY", "DISTANCE",
                    "SCHEDULED_DEPARTURE", "DAY_OF_WEEK", "MONTH", "FLIGHT_NUMBER">>

\* The columns a page's branch looks up by name; a lookup of a column the
\* frame lacks raises (KeyError from pandas, ValueError from plotly).
required(p) ==
    CASE p = "Dashboard Overview" ->
            {"DEPARTURE_DELAY", "ARRIVAL_DELAY", "AIRLINE", "MONTH", "FLIGHT_NUMBER"}
      [] p = "Performance Analytics" ->
            {"AIRLINE", "DEPARTURE_DELAY", "ARRIVAL_DELAY", "DISTANCE"}
      [] p = "Time Analysis" ->
            {"SCHEDULED_DEPARTURE", "DEPARTURE_DELAY", "DAY_OF_WEEK", "ARRIVAL_DELAY"}
      [] p = "Delay Patterns" -> {"DEPARTURE_DELAY", "ARRIVAL_DELAY", "DISTANCE"}
      [] p = "Route Analysis" ->
            {"DISTANCE", "ARRIVAL_DELAY", "AIRLINE", "ORIGIN_AIRPORT",
             "DESTINATION_AIRPORT", "DEPARTURE_DELAY"}
      [] OTHER -> {}

raises(f, p) == \E c \in required(p) : ~HasColumn(f, c)

\* flight.groupby('MONTH').agg(count, mean, mean).reset_index()
monthly_data(f) ==
    LET rows == all_rows(f)
        keys == groupby(f, rows, <<"MONTH">>)
    IN [k \in 1..Len(keys) |->
          LET g == group_rows(f, rows, <<"MONTH">>, keys[k])
          IN [MONTH |-> keys[k][1],
              FLIGHT_NUMBER |-> count(f, g, "FLIGHT_NUMBER"),
              DEPARTURE_DELAY |-> mean(f, g, "DEPARTURE_DELAY"),
              ARRIVAL_DELAY |-> mean(f, g, "ARRIVAL_DELAY")]]

overview(f, ties) ==
    [total |-> len(f),
     avg_dep_delay |-> mean(f, all_rows(f), "DEPARTURE_DELAY"),
     avg_arr_delay |-> mean(f, all_rows(f), "ARRIVAL_DELAY"),
     airline_data |-> value_counts(f, all_rows(f), "AIRLINE", ties),
     monthly_data |-> monthly_data(f)]

\* sampled_data.groupby('AIRLINE').agg(...): one row per airline. (The
\* rounding to two decimals of the displayed figures is not modelled.)
metrics(f, rows) ==
    LET keys == groupby(f, rows, <<"AIRLINE">>)
    IN [k \in 1..Len(keys) |->
          LET g == group_rows(f, rows, <<"AIRLINE">>, keys[k])
          IN [AIRLINE |-> keys[k][1],
              DEPARTURE_DELAY_mean |-> mean(f, g, "DEPARTURE_DELAY"),
              DEPARTURE_DELAY_std |-> std(f, g, "DEPARTURE_DELAY"),
              ARRIVAL_DELAY_mean |-> mean(f, g, "ARRIVAL_DELAY"),
              ARRIVAL_DELAY_std |-> std(f, g, "ARRIVAL_DELAY"),
              DISTANCE_mean |-> mean(f, g, "DISTANCE")]]

\* sampled_data.groupby('SCHEDULED_DEPARTURE')[['DEPARTURE_DELAY']].mean()
hourly(f, rows) ==
    LET keys == groupby(f, rows, <<"SCHEDULED_DEPARTURE">>)
    IN [k \in 1..Len(keys) |->
          [SCHEDULED_DEPARTURE |-> keys[k][1],
           DEPARTURE_DELAY |->
               mean(f, group_rows(f, rows, <<"SCHEDULED_DEPARTURE">>, keys[k]),
                    "DEPARTURE_DELAY")]]

\* px.box(x='DAY_OF_WEEK', y='ARRIVAL_DELAY'): per day, the delays it summarises.
day_of_week_box(f, rows) ==
    LET keys == groupby(f, rows, <<"DAY_OF_WEEK">>)
    IN [k \in 1..Len(keys) |->
          [DAY_OF_WEEK |-> keys[k][1],
           n |-> count(f, group_rows(f, rows, <<"DAY_OF_WEEK">>, keys[k]),
                       "ARRIVAL_DELAY")]]

\* Whether frame[[a, b]].corr() has a number at (a, b): at least two rows
\* with both values, neither column constant over them.
corr_defined(f, rows, a, b) ==
    LET both == SelectSeq(rows, LAMBDA i : ~Cell(f, i, a).isna /\ ~Cell(f, i, b).isna)
        va == std(f, both, a)
        vb == std(f, both, b)
    IN va.defined /\ vb.defined /\ va.num > 0 /\ vb.num > 0

corr(f, rows, cols) ==
    [a \in cols |-> [b \in cols |-> corr_defined(f, rows, a, b)]]

delay_patterns(f, rows) ==
    [histogram_n |-> count(f, rows, "DEPARTURE_DELAY"),
     delay_corr |-> corr(f, rows, {"DEPARTURE_DELAY", "ARRIVAL_DELAY", "DISTANCE"})]

\* sampled_data.groupby(['ORIGIN_AIRPORT', 'DESTINATION_AIRPORT']).agg(...)
\*     .reset_index()
route_groups(f, rows) ==
    LET cols == <<"ORIGIN_AIRPORT", "DESTINATION_AIRPORT">>
        keys == groupby(f, rows, cols)
    IN [k \in 1..Len(keys) |->
          LET g == group_rows(f, rows, cols, keys[k])
          IN [ORIGIN_AIRPORT |-> keys[k][1],
              DESTINATION_AIRPORT |-> keys[k][2],
              ARRIVAL_DELAY |-> mean(f, g, "ARRIVAL_DELAY"),
              DEPARTURE_DELAY |-> mean(f, g, "DEPARTURE_DELAY"),
              DISTANCE |-> first(f, g, "DISTANCE")]]

\* route_stats.sort_values('ARRIVAL_DELAY', ascending=False).head(10)
route_stats(f, rows, ties) ==
    head(sort_values(route_groups(f, rows), "ARRIVAL_DELAY", ties), 10)

\* select_dtypes(...).corr() and describe(), over the numeric columns present.
statistical(f, rows) ==
    LET cols == {NumericColumns[k] : k \in {j \in 1..Len(NumericColumns) :
                                              HasColumn(f, NumericColumns[j])}}
    IN [corr |-> corr(f, rows, cols),
        describe |-> [c \in cols |-> [count |-> count(f, rows, c),
                                      mean |-> mean(f, rows, c),
                                      std |-> std(f, rows, c)]]]

(***************************************************************************)
(* The script run.                                                          *)
(***************************************************************************)
NoView == [page |-> "", status |-> "none", out |-> <<>>]

NoEntry == [hit |-> FALSE, value |-> Unset]

Init ==
    /\ csv \in Files
    /\ cache = NoEntry
    /\ reads = 0
    /\ radio_state = "Dashboard Overview"
    /\ slider_state = [set |-> FALSE, v |-> 0]
    /\ pc = "load"
    /\ flight = Unset
    /\ page = ""
    /\ max_sample_size = 0
    /\ min_sample_size = 0
    /\ default_size = 0
    /\ sample_size = 0
    /\ sidebar = "none"
    /\ sampled_data = NoSample
    /\ view = NoView
    /\ alerts = {}
    /\ drawn = {}

\* pd.read_csv("FF_flights_data.csv"): the frame, or an exception for a
\* file that is missing or cannot be parsed. A file holding only its header
\* line parses to a frame of no rows.
read_csv_raises(file) == file.kind # "DataFrame"

\* What load_data returns when read_csv raised.
on_read_error_empty_frame == Table(0, 1, "", "", "")

on_read_error == None

\* @st.cache_data: whether the store answers the call.
never_cached(c) == FALSE

cached(c) == c.hit

\* flight = load_data(), lines 45-54.
load_data ==
    /\ pc = "load"
    /\ IF cached(cache)
       THEN /\ flight' = cache.value
            \* the st.error recorded with a cached result is replayed
            /\ alerts' = IF cache.value = None THEN {"Error loading data"} ELSE {}
            /\ UNCHANGED <<cache, reads>>
       ELSE /\ reads' = reads + 1
            /\ IF read_csv_raises(csv)
               THEN /\ flight' = on_read_error
                    /\ alerts' = {"Error loading data"}
               ELSE /\ flight' = csv
                    /\ alerts' = {}
            /\ cache' = [hit |-> TRUE, value |-> flight']
    /\ pc' = "check"
    /\ UNCHANGED <<csv, radio_state, slider_state, page, max_sample_size,
                   min_sample_size, default_size, sample_size, sidebar, sampled_data,
                   view, drawn>>

\* if flight is None: st.error(...); st.stop(), lines 57-59.
check_loaded ==
    /\ pc = "check"
    /\ IF flight = None
       THEN /\ alerts' = alerts \cup {"Failed to load the flight data"}
            /\ pc' = "stopped"
       ELSE /\ pc' = "radio"
            /\ UNCHANGED alerts
    /\ UNCHANGED <<csv, cache, reads, radio_state, slider_state, flight, page,
                   max_sample_size, min_sample_size, default_size, sample_size,
                   sidebar, sampled_data, view, drawn>>

\* page = st.sidebar.radio("Navigation", [...]), lines 65-72.
navigation ==
    /\ pc = "radio"
    /\ page' = radio_state
    /\ pc' = "bounds"
    /\ UNCHANGED <<csv, cache, reads, radio_state, slider_state, flight,
                   max_sample_size, min_sample_size, default_size, sample_size,
                   sidebar, sampled_data, view, alerts, drawn>>

min(a, b) == IF a < b THEN a ELSE b

SampleCap == 1000
SampleFloor == 100
SampleDefault == 500

max_sample_size_of(f) == min(len(f), SampleCap)

min_sample_size_not_below(mx) == min(SampleFloor, mx)

min_sample_size_of(mx) == min(SampleFloor, mx - 1)

default_size_of(mx) == min(SampleDefault, mx)

\* Lines 75-77.
slider_range ==
    /\ pc = "bounds"
    /\ max_sample_size' = max_sample_size_of(flight)
    /\ min_sample_size' = min_sample_size_of(max_sample_size')
    /\ default_size' = default_size_of(max_sample_size')
    /\ pc' = "slider"
    /\ UNCHANGED <<csv, cache, reads, radio_state, slider_state, flight, page,
                   sample_size, sidebar, sampled_data, view, alerts, drawn>>

\* Lines 80-84: the slider (its session value, or its default on first
\* display), or all the data when there is no range to choose from.
sample_size_selector ==
    /\ pc = "slider"
    /\ IF max_sample_size > min_sample_size
       THEN /\ sample_size' = IF slider_state.set THEN slider_state.v ELSE default_size
            /\ sidebar' = "slider"
       ELSE /\ sample_size' = max_sample_size
            /\ sidebar' = "info"
    /\ pc' = "sample"
    /\ UNCHANGED <<csv, cache, reads, radio_state, slider_state, flight, page,
                   max_sample_size, min_sample_size, default_size, sampled_data,
                   view, alerts, drawn>>

\* sampled_data = flight.sample(n=sample_size, random_state=42), line 87.
\* A ValueError ends the run.
draw_sample ==
    /\ pc = "sample"
    /\ LET r == sample(flight, sample_size, random_state)
       IN IF r.ok
          THEN /\ sampled_data' = r
               /\ drawn' = drawn \cup {[n |-> sample_size, idx |-> r.idx]}
               /\ pc' = "page"
          ELSE /\ sampled_data' = NoSample
               /\ pc' = "exception"
               /\ UNCHANGED drawn
    /\ UNCHANGED <<csv, cache, reads, radio_state, slider_state, flight, page,
                   max_sample_size, min_sample_size, default_size, sample_size,
                   sidebar, view, alerts>>

\* One branch of the if/elif chain of lines 89-246: the page's tables and
\* figures, or the exception of a column lookup that fails.
branch(p, out) ==
    /\ pc = "page"
    /\ page = p
    /\ IF raises(flight, p)
       THEN /\ view' = [page |-> p, status |-> "exception", out |-> <<>>]
            /\ pc' = "exception"
       ELSE /\ view' = [page |-> p, status |-> "rendered", out |-> out]
            /\ pc' = "done"
    /\ UNCHANGED <<csv, cache, reads, radio_state, slider_state, flight, page,
                   max_sample_size, min_sample_size, default_size, sample_size,
                   sidebar, sampled_data, alerts, drawn>>

dashboard_overview ==
    \E ties \in TieOrders : branch("Dashboard Overview", overview(flight, ties))

performance_analytics ==
    branch("Performance Analytics", [metrics |-> metrics(flight, sampled_data.idx)])

time_analysis ==
    branch("Time Analysis", [hourly |-> hourly(flight, sampled_data.idx),
                             box |-> day_of_week_box(flight, sampled_data.idx)])

delay_patterns_page == branch("Delay Patterns", delay_patterns(flight, sampled_data.idx))

route_analysis ==
    \E ties \in TieOrders :
        branch("Route Analysis",
               [route_stats |-> route_stats(flight, sampled_data.idx, ties)])

statistical_insights ==
    branch("Statistical Insights", statistical(flight, sampled_data.idx))

(***************************************************************************)
(* The user. Any interaction re-runs the script from its first line; the    *)
(* widget values and the cache store are what is kept.                      *)
(***************************************************************************)
run_ended == pc \in {"done", "stopped", "exception"}

rerun ==
    /\ pc' = "load"
    /\ flight' = Unset
    /\ page' = ""
    /\ max_sample_size' = 0
    /\ min_sample_size' = 0
    /\ default_size' = 0
    /\ sample_size' = 0
    /\ sidebar' = "none"
    /\ sampled_data' = NoSample
    /\ view' = NoView
    /\ alerts' = {}
    /\ UNCHANGED <<csv, cache, reads, drawn>>

\* The user picks another page in the radio (shown unless the run stopped
\* before it).
select_page ==
    /\ run_ended
    /\ pc # "stopped"
    /\ \E p \in Pages \ {radio_state} : radio_state' = p
    /\ UNCHANGED slider_state
    /\ rerun

\* The user moves the slider to another value of its range.
move_slider ==
    /\ run_ended
    /\ sidebar = "slider"
    /\ \E v \in (min_sample_size..max_sample_size) \ {sample_size} :
          slider_state' = [set |-> TRUE, v |-> v]
    /\ UNCHANGED radio_state
    /\ rerun

\* The user asks for a re-run with nothing changed.
rerun_unchanged ==
    /\ run_ended
    /\ UNCHANGED <<radio_state, slider_state>>
    /\ rerun

Next ==
    \/ load_data
    \/ check_loaded
    \/ navigation
    \/ slider_range
    \/ sample_size_selector
    \/ draw_sample
    \/ dashboard_overview
    \/ performance_analytics
    \/ time_analysis
    \/ delay_patterns_page
    \/ route_analysis
    \/ statistical_insights
    \/ select_page
    \/ move_slider
    \/ rerun_unchanged

Spec == Init /\ [][Next]_vars

(***************************************************************************)
(* The slider's range on files of up to MaxLen rows: the run up to the      *)
(* sample-size selector, from every file length and from the slider values  *)
(* at and next to the ends of the range the file gives.                     *)
(***************************************************************************)
LengthFiles == {Table(n, 1, "", "", "") : n \in 0..MaxLen}

slider_values(file) ==
    LET mx == max_sample_size_of(file)
        mn == min_sample_size_of(mx)
    IN {[set |-> FALSE, v |-> 0]}
       \cup {[set |-> TRUE, v |-> v] :
               v \in {mn, mn + 1, default_size_of(mx), mx - 1, mx} \cap (mn..mx)}

InitBounds ==
    /\ csv \in LengthFiles
    /\ cache = NoEntry
    /\ reads = 0
    /\ radio_state = "Dashboard Overview"
    /\ slider_state \in slider_values(csv)
    /\ pc = "load"
    /\ flight = Unset
    /\ page = ""
    /\ max_sample_size = 0
    /\ min_sample_size = 0
    /\ default_size = 0
    /\ sample_size = 0
    /\ sidebar = "none"
    /\ sampled_data = NoSample
    /\ view = NoView
    /\ alerts = {}
    /\ drawn = {}

NextBounds ==
    \/ load_data
    \/ check_loaded
    \/ navigation
    \/ slider_range
    \/ sample_size_selector

SpecBounds == InitBounds /\ [][NextBounds]_vars

(***************************************************************************)
(* Properties.                                                              *)
(***************************************************************************)
\* The run has evaluated the sample-size selector (lines 80-84).
selector_evaluated == sidebar # "none"

\* The run has executed line 87, which gave a sample or raised.
draw_acted == pc \in {"page", "done"} \/ (pc = "exception" /\ selector_evaluated)

\* The page branch of the run has acted.
branch_acted == view.status # "none"

\* C1: when reading the CSV fails, load_data reports the failure and the run
\* halts at st.stop(): the sample-size selector is never evaluated, no sample
\* is drawn and no page branch is executed.
C1_FailedLoadHalts ==
    read_csv_raises(csv) =>
        /\ pc \in {"load", "check", "stopped"}
        /\ ~selector_evaluated
        /\ sampled_data = NoSample
        /\ drawn = {}
        /\ ~branch_acted
        /\ pc # "load" => "Error loading data" \in alerts
        /\ pc = "stopped" => "Failed to load the flight data" \in alerts

\* C1 witness: a run on an unreadable file has stopped, its failure reported.
C1_Witness ==
    /\ read_csv_raises(csv)
    /\ pc = "stopped"
    /\ flight = None
    /\ alerts = {"Error loading data", "Failed to load the flight data"}

\* C2: a source that parses to zero records is a load failure, so past the
\* load check, and whenever a sample is drawn or a view rendered, the Dataset
\* has at least one record.
C2_LoadedDatasetNonEmpty ==
    /\ pc \notin {"load", "check", "stopped"} => len(flight) >= 1
    /\ (sampled_data.ok \/ view.status = "rendered") => len(flight) >= 1

\* C3: the CSV is read from storage at most once per process, and every call
\* of load_data returns the contents the store holds.
C3_ReadAtMostOnce ==
    /\ reads <= 1
    /\ cache.hit => reads = 1
    /\ pc # "load" => (cache.hit /\ flight = cache.value)

\* C3 witness: after at least three runs (the page and the slider have both
\* been changed) the file has been read once.
C3_Witness ==
    /\ reads = 1
    /\ pc = "done"
    /\ radio_state # "Dashboard Overview"
    /\ slider_state.set

\* C4: the requested size lies in [min(100, N-1), min(N, 1000)] and the draw
\* gives a Sample of exactly that many records, all distinct rows of the
\* Dataset.
C4_SampleSizeInRangeAndDrawn ==
    /\ selector_evaluated =>
          /\ sample_size >= min(100, len(flight) - 1)
          /\ sample_size <= min(len(flight), 1000)
    /\ draw_acted =>
          /\ sampled_data.ok
          /\ Len(sampled_data.idx) = sample_size
          /\ \A k \in 1..Len(sampled_data.idx) :
                /\ sampled_data.idx[k] \in 0..(len(flight) - 1)
                /\ \A j \in 1..Len(sampled_data.idx) :
                      sampled_data.idx[j] = sampled_data.idx[k] => j = k

\* C5: a requested sample size of 0 is rejected: no Sample, not even an empty
\* one, is produced and no view is rendered from it. (Stated for a Dataset
\* that has records, where a size of 0 is the slider's own minimum.)
C5_ZeroSizeRejected ==
    (selector_evaluated /\ sample_size = 0 /\ len(flight) >= 1) =>
        /\ ~sampled_data.ok
        /\ view.status # "rendered"

\* C6: the draw is deterministic: all the draws of one requested size made in
\* the process, whatever the page, took the same records in the same order.
C6_SampleDeterministic ==
    \A a \in drawn : \A b \in drawn : a.n = b.n => a.idx = b.idx

\* C6 witness: a second run at least (another page than the first run's is
\* selected, the slider untouched) has drawn at least two records, and they
\* are the only draw the process has seen.
C6_Witness ==
    /\ pc = "page"
    /\ page = "Route Analysis"
    /\ ~slider_state.set
    /\ Len(sampled_data.idx) >= 2
    /\ drawn = {[n |-> sample_size, idx |-> sampled_data.idx]}

\* Column c holds no value in any row of a frame that has rows.
entirely_null(f, c) == f.nullcol = c /\ f.nullmode = "all" /\ len(f) > 0

\* C7: when a column the selected view requires is absent or entirely null,
\* the view signals an error instead of rendering; and a view whose columns
\* are intact renders.
C7_MissingOrNullColumnSignals ==
    branch_acted =>
        /\ \A c \in required(view.page) :
              (~HasColumn(flight, c) \/ entirely_null(flight, c))
                  => view.status = "exception"
        /\ (\A c \in required(view.page) :
               HasColumn(flight, c) /\ ~entirely_null(flight, c))
                  => view.status = "rendered"

\* The (origin, destination) pairs present in the sample.
sample_routes ==
    {key_of(flight, sampled_data.idx[k], <<"ORIGIN_AIRPORT", "DESTINATION_AIRPORT">>) :
        k \in {j \in 1..Len(sampled_data.idx) :
                 ~key_isna(flight, sampled_data.idx[j],
                           <<"ORIGIN_AIRPORT", "DESTINATION_AIRPORT">>)}}

\* The mean arrival delay of the sample's records on route r.
route_mean(r) ==
    mean(flight,
         SelectSeq(sampled_data.idx,
                   LAMBDA i : /\ ~Cell(flight, i, "ORIGIN_AIRPORT").isna
                              /\ ~Cell(flight, i, "DESTINATION_AIRPORT").isna
                              /\ Cell(flight, i, "ORIGIN_AIRPORT").v = r[1]
                              /\ Cell(flight, i, "DESTINATION_AIRPORT").v = r[2]),
         "ARRIVAL_DELAY")

route_of_row(row) == <<row.ORIGIN_AIRPORT, row.DESTINATION_AIRPORT>>

route_table_shown == view.page = "Route Analysis" /\ view.status = "rendered"

\* C8: the Route Analysis table has at most 10 rows, one per distinct
\* (origin, destination) pair of the sample, each with the pair's mean arrival
\* delay; no row has a greater mean than a row above it, rows without a mean
\* (NaN) come last; and no group left out has a greater mean than a group shown.
C8_RouteTopTen ==
    route_table_shown =>
        LET t == view.out.route_stats
            shown == {route_of_row(t[k]) : k \in 1..Len(t)}
        IN /\ Len(t) <= 10
           /\ Len(t) = min(10, Cardinality(sample_routes))
           /\ shown \subseteq sample_routes
           /\ Cardinality(shown) = Len(t)
           /\ \A k \in 1..Len(t) : t[k].ARRIVAL_DELAY = route_mean(route_of_row(t[k]))
           /\ \A i \in 1..Len(t) : \A j \in (i + 1)..Len(t) :
                 /\ isnan(t[i].ARRIVAL_DELAY) => isnan(t[j].ARRIVAL_DELAY)
                 /\ ~isnan(t[j].ARRIVAL_DELAY) =>
                       ~mean_lt(t[i].ARRIVAL_DELAY, t[j].ARRIVAL_DELAY)
           /\ \A u \in sample_routes \ shown : \A k \in 1..Len(t) :
                 \/ isnan(route_mean(u))
                 \/ /\ ~isnan(t[k].ARRIVAL_DELAY)
                    /\ ~mean_lt(t[k].ARRIVAL_DELAY, route_mean(u))

\* C8 witness: a table of 10 rows cut from more than 10 routes, its first and
\* last rows with different means, and a group left out that has a mean.
C8_Witness ==
    /\ route_table_shown
    /\ Len(view.out.route_stats) = 10
    /\ Cardinality(sample_routes) > 10
    /\ ~isnan(view.out.route_stats[10].ARRIVAL_DELAY)
    /\ mean_lt(view.out.route_stats[10].ARRIVAL_DELAY,
               view.out.route_stats[1].ARRIVAL_DELAY)
    /\ \E u \in sample_routes : /\ \A k \in 1..10 :
                                      route_of_row(view.out.route_stats[k]) # u
                                /\ ~isnan(route_mean(u))

\* The airline values present in the sample.
sample_airlines ==
    {Cell(flight, sampled_data.idx[k], "AIRLINE").v :
        k \in {j \in 1..Len(sampled_data.idx) :
                 ~Cell(flight, sampled_data.idx[j], "AIRLINE").isna}}

\* The sample's records of airline a.
airline_records(a) ==
    SelectSeq(sampled_data.idx,
              LAMBDA i : ~Cell(flight, i, "AIRLINE").isna
                         /\ Cell(flight, i, "AIRLINE").v = a)

\* The record counts of the groups of table t, summed.
RECURSIVE group_counts(_)
group_counts(t) ==
    IF t = <<>> THEN 0
    ELSE Len(airline_records(Head(t).AIRLINE)) + group_counts(Tail(t))

metrics_shown == view.page = "Performance Analytics" /\ view.status = "rendered"

\* One row per distinct airline value present in the sample; one group when
\* the sample's records share one airline.
one_row_per_airline(t) ==
    /\ {t[k].AIRLINE : k \in 1..Len(t)} = sample_airlines
    /\ Len(t) = Cardinality(sample_airlines)
    /\ Cardinality(sample_airlines) = 1 => Len(t) = 1

\* C9 as claimed: the Performance table has one row per distinct airline of
\* the sample, and the groups' record counts sum to the sample size.
C9_GroupsPartitionSample ==
    metrics_shown =>
        /\ one_row_per_airline(view.out.metrics)
        /\ group_counts(view.out.metrics) = Len(sampled_data.idx)

\* C9 as amended: the Performance table has one row per distinct airline of
\* the sample, and the groups' record counts sum to the number of the
\* sample's records that have an airline (a record whose airline is null is
\* in no group).
C9_GroupsPartitionRecordsWithAirline ==
    metrics_shown =>
        /\ one_row_per_airline(view.out.metrics)
        /\ group_counts(view.out.metrics) =
              Len(SelectSeq(sampled_data.idx,
                            LAMBDA i : ~Cell(flight, i, "AIRLINE").isna))

\* C9 witness: a table of at least two groups from a sample that also holds
\* a record without airline.
C9_Witness ==
    /\ metrics_shown
    /\ Len(view.out.metrics) >= 2
    /\ group_counts(view.out.metrics) < Len(sampled_data.idx)
    /\ group_counts(view.out.metrics) > Len(view.out.metrics)

\* C10: whatever the number of rows, min_sample_size < max_sample_size once
\* the bounds are computed, so the slider is always shown and the branch
\* that uses all the data is never taken; the slider's default lies in its
\* range.
C10_SliderAlwaysShown ==
    /\ sidebar # "info"
    /\ pc \in {"slider", "sample"} =>
          /\ min_sample_size < max_sample_size
          /\ min_sample_size <= default_size
          /\ default_size <= max_sample_size
    /\ pc = "sample" =>
          /\ sidebar = "slider"
          /\ min_sample_size <= sample_size
          /\ sample_size <= max_sample_size

\* C10 witness: the slider shown at its default for a file longer than the
\* cap, and the bounds are the floor and the cap.
C10_Witness ==
    /\ pc = "sample"
    /\ sidebar = "slider"
    /\ len(flight) > SampleCap
    /\ min_sample_size = SampleFloor
    /\ max_sample_size = SampleCap
    /\ sample_size = SampleDefault

=============================================================================
